---- MODULE Spec2Model ----
(***************************************************************************)
(* Model of the PICOBOOT host client (librp2040, src/src/lib.rs).          *)
(*                                                                         *)
(* State: the process-wide token counter TOKEN and its mutex, and, per     *)
(* thread, the position inside the running call (pc), the call's locals    *)
(* (frame), the bulk transfers the call has issued on its session (io)     *)
(* and the value the call returned (result).  The history variable         *)
(* packets records every PicobootCommand that has been constructed.        *)
(*                                                                         *)
(* Spec        one thread driving the command operations of a session.     *)
(* SpecThreads several threads constructing packets concurrently.          *)
(* SpecSession discovery, construction, control-channel operations and     *)
(*             teardown of a session.                                      *)
(***************************************************************************)
EXTENDS Integers, Sequences, FiniteSets, TLC

VARIABLES TOKEN, lockHolder, pc, frame, io, result, packets, started, device_info,
          bus, session, ctl, cmd_status

vars == <<TOKEN, lockHolder, pc, frame, io, result, packets, started, device_info,
          bus, session, ctl, cmd_status>>

\* the attached devices, the session value, the calls made on its handle
\* outside the bulk endpoints, and the last decoded status structure
sessionVars == <<bus, session, ctl, cmd_status>>

(***************************************************************************)
(* Bounds of the model.                                                    *)
(***************************************************************************)
\* number of packet constructions begun in one run
MaxPackets == 3

MainThread == "main"
Threads == {"main", "t1", "t2"}
NoThread == "none"

\* argument values offered to the command operations
AddrValues == {0, 100, 256, 4096}
SizeValues == {0, 1, 256, 4096}
DataLens == {0, 1, 256, 4096}
RebootInputs == {<<0, 0, 5000>>, <<536870912, 537133056, 5000>>}
ExclusivityOptions == {"NOT_EXCLUSIVE", "EXCLUSIVE", "EXCLUSIVE_AND_EJECT"}

\* endpoint addresses a session can hold (0: no endpoint of that direction
\* was recorded by discovery)
InAddrs == {0, 129}
OutAddrs == {0, 2}

\* errors the transport can return from a bulk transfer
TransportErrors == {"Timeout", "Pipe"}

\* errors the transport can return from a call on a device or its handle
\* (open, claim, configuration, alternate setting, release, clear-halt)
HandleErrors == {"Busy"}

\* first byte of the status a GET_STATUS request can deliver
StatusBytes == {0, 1, 2}

\* raw values the status-code field of a status buffer can hold
StatusFields == {0, 7, 9}

\* how the owner of a session leaves the scope that holds it
ExitKinds == {"return", "error", "panic"}

(***************************************************************************)
(* Values.                                                                 *)
(***************************************************************************)
Ok(n) == [err |-> "None", n |-> n]
Err(e) == [err |-> e, n |-> 0]
Pending == [err |-> "Pending", n |-> 0]

IsOk(r) == r.err = "None"
IsErr(r) == r.err \notin {"None", "Pending"}

Some(len) == [some |-> TRUE, len |-> len]
None == [some |-> FALSE, len |-> 0]

\* what a bulk transfer over a buffer of len bytes can return
TransferOutcomes(len) ==
    {Err(e) : e \in TransportErrors} \cup {Ok(n) : n \in {0, len \div 2, len}}

\* variant: the bytes are laid out most significant first
to_le_bytes_BigEndian(x) ==
    <<(x \div 16777216) % 256, (x \div 65536) % 256, (x \div 256) % 256, x % 256>>

\* u32::to_le_bytes
to_le_bytes(x) ==
    <<x % 256, (x \div 256) % 256, (x \div 65536) % 256, (x \div 16777216) % 256>>

Zeros(n) == [i \in 1..n |-> 0]

\* size_of::<PicobootCommand>()
PacketSize == 32

MAGIC == 1126158603

NoCmd == [magic |-> 0, token |-> 0, cmd_id |-> 0, cmd_size |-> 0, reserved |-> 0,
          transfer_length |-> 0, args |-> Zeros(16)]

NoFrame == [op |-> "none", inputs |-> <<>>, dAddr |-> 0, dSize |-> 0, data |-> None,
            cmd_id |-> 0, cmd_size |-> 0, transfer_length |-> 0, args |-> Zeros(16),
            token |-> 0, pred |-> 0, cmd |-> NoCmd, msg |-> ""]

(***************************************************************************)
(* USB descriptor trees and find_2040.                                     *)
(***************************************************************************)
Endpoint(address, direction, transfer_type) ==
    [address |-> address, direction |-> direction, transfer_type |-> transfer_type]

\* the mass-storage interface of the bootloader
MscDescriptor ==
    [class_code |-> 8, sub_class_code |-> 6, protocol_code |-> 80,
     interface_number |-> 0, setting_number |-> 0,
     endpoints |-> <<Endpoint(131, "In", "Bulk"), Endpoint(4, "Out", "Bulk")>>]

\* a vendor-specific interface descriptor (class 0xFF, sub-class 0, protocol 0)
VendorDescriptor(number, endpoints) ==
    [class_code |-> 255, sub_class_code |-> 0, protocol_code |-> 0,
     interface_number |-> number, setting_number |-> 0, endpoints |-> endpoints]

\* a device with the bootloader ids and one readable configuration
Bootloader(interfaces) ==
    [vendor_id |-> 11914, product_id |-> 3,
     configs |-> <<[number |-> 1, readable |-> TRUE, interfaces |-> interfaces]>>]

\* a bootloader whose vendor interface has an IN endpoint i and an OUT
\* endpoint o (0: the interface has no endpoint of that direction)
Pico(i, o) ==
    Bootloader(<< <<MscDescriptor>>,
                  <<VendorDescriptor(1,
                       (IF i # 0 THEN <<Endpoint(i, "In", "Bulk")>> ELSE <<>>)
                       \o (IF o # 0 THEN <<Endpoint(o, "Out", "Bulk")>> ELSE <<>>))>> >>)

\* a second bootloader with another interface layout
Pico2 ==
    Bootloader(<< <<VendorDescriptor(0, <<Endpoint(133, "In", "Bulk"),
                                          Endpoint(6, "Out", "Bulk")>>)>>,
                  <<MscDescriptor>> >>)

\* a bootloader whose vendor interface has an interrupt IN endpoint only
PicoInterrupt ==
    Bootloader(<< <<VendorDescriptor(1, <<Endpoint(129, "In", "Interrupt")>>)>> >>)

\* a device with the bootloader ids and no vendor interface
PicoMscOnly == Bootloader(<< <<MscDescriptor>> >>)

\* a bootloader whose configuration descriptor cannot be read
PicoUnreadable ==
    [vendor_id |-> 11914, product_id |-> 3,
     configs |-> <<[number |-> 1, readable |-> FALSE, interfaces |-> <<>>]>>]

OtherDevice ==
    [vendor_id |-> 4660, product_id |-> 3,
     configs |-> <<[number |-> 1, readable |-> TRUE,
                    interfaces |-> << <<MscDescriptor>> >>]>>]

\* the device lists of the model
Buses ==
    {<<Pico(i, o)>> : i \in InAddrs, o \in OutAddrs}
    \cup {<<>>, <<OtherDevice>>, <<PicoMscOnly>>, <<PicoUnreadable>>,
          <<PicoInterrupt>>, <<OtherDevice, Pico(129, 2)>>, <<Pico(129, 2), Pico2>>}

RECURSIVE Flatten(_)
\* the descriptors of a configuration in the order of the two inner loops
Flatten(interfaces) ==
    IF interfaces = <<>> THEN <<>>
    ELSE Head(interfaces) \o Flatten(Tail(interfaces))

\* the three class tests of find_2040
IsVendorInterface(descriptor) ==
    /\ descriptor.class_code = 255
    /\ descriptor.sub_class_code = 0
    /\ descriptor.protocol_code = 0

RECURSIVE LastAddress(_, _, _)
\* the loop over endpoint_descriptors(): the last endpoint of a direction
\* sets the address, whatever its transfer type; start is the initial value
LastAddress(endpoints, direction, start) ==
    IF endpoints = <<>> THEN start
    ELSE LastAddress(Tail(endpoints), direction,
                     IF Head(endpoints).direction = direction
                     THEN Head(endpoints).address ELSE start)

\* the DeviceInformation built from a selected descriptor
DeviceInfoOf(config, descriptor) ==
    [vid |-> 11914, pid |-> 3,
     in_addr |-> LastAddress(descriptor.endpoints, "In", 0),
     out_addr |-> LastAddress(descriptor.endpoints, "Out", 0),
     iface |-> descriptor.interface_number,
     config |-> config.number,
     setting |-> descriptor.setting_number]

NoInfo == [vid |-> 0, pid |-> 0, in_addr |-> 0, out_addr |-> 0,
           iface |-> 0, config |-> 0, setting |-> 0]

Found(info) == [err |-> "None", info |-> info]
NotFound(e) == [err |-> e, info |-> NoInfo]

RECURSIVE ScanDescriptors(_, _)
\* the first vendor descriptor of a configuration, or "Continue"
ScanDescriptors(config, descriptors) ==
    IF descriptors = <<>> THEN NotFound("Continue")
    ELSE IF IsVendorInterface(Head(descriptors))
         THEN Found(DeviceInfoOf(config, Head(descriptors)))
         ELSE ScanDescriptors(config, Tail(descriptors))

RECURSIVE ScanConfigs(_)
\* the loop over the configurations of one device
ScanConfigs(configs) ==
    IF configs = <<>> THEN NotFound("Continue")
    ELSE IF ~Head(configs).readable THEN NotFound("Io")
         ELSE LET r == ScanDescriptors(Head(configs), Flatten(Head(configs).interfaces))
              IN IF r.err = "Continue" THEN ScanConfigs(Tail(configs)) ELSE r

RECURSIVE find_2040(_)
\* find_2040 over the device list b
find_2040(b) ==
    IF b = <<>> THEN NotFound("NoDevice")
    ELSE IF Head(b).vendor_id # 11914 \/ Head(b).product_id # 3
         THEN find_2040(Tail(b))
         ELSE LET r == ScanConfigs(Head(b).configs)
              IN IF r.err = "Continue" THEN find_2040(Tail(b)) ELSE r

\* the session value: USB2040 { handle, device_info } and whether its
\* interface is claimed; handle is the position of the opened device
NoSession == [state |-> "none", claimed |-> FALSE, handle |-> 0]

NoStatus == [dStatusCode |-> "none", raw |-> 0]

(***************************************************************************)
(* Initial state: TOKEN is 1 (lazy_static), no call is running.  Init is   *)
(* the state in which try_find_and_open_2040 has returned a session;       *)
(* InitSession is the state before it is called.                           *)
(***************************************************************************)
Init ==
    /\ TOKEN = 1
    /\ lockHolder = NoThread
    /\ pc = [t \in Threads |-> "idle"]
    /\ frame = [t \in Threads |-> NoFrame]
    /\ io = [t \in Threads |-> <<>>]
    /\ result = [t \in Threads |-> Pending]
    /\ packets = <<>>
    /\ started = 0
    /\ \E i \in InAddrs, o \in OutAddrs :
          /\ bus = <<Pico(i, o)>>
          /\ device_info = find_2040(bus).info
    /\ session = [state |-> "alive", claimed |-> TRUE, handle |-> 1]
    /\ ctl = <<>>
    /\ cmd_status = NoStatus

InitSession ==
    /\ TOKEN = 1
    /\ lockHolder = NoThread
    /\ pc = [t \in Threads |-> IF t = MainThread THEN "start" ELSE "idle"]
    /\ frame = [t \in Threads |-> NoFrame]
    /\ io = [t \in Threads |-> <<>>]
    /\ result = [t \in Threads |-> Pending]
    /\ packets = <<>>
    /\ started = 0
    /\ bus \in Buses
    /\ device_info = NoInfo
    /\ session = NoSession
    /\ ctl = <<>>
    /\ cmd_status = NoStatus

(***************************************************************************)
(* The command operations.  Each builds its argument block, runs its local *)
(* validation and enters PicobootCommand::new.                             *)
(***************************************************************************)
\* a local validation error: the operation returns at once
Reject(t, op, dAddr, dSize, data, e) ==
    /\ pc[t] = "idle"
    /\ started < MaxPackets
    /\ frame' = [frame EXCEPT ![t] =
                   [NoFrame EXCEPT !.op = op, !.dAddr = dAddr, !.dSize = dSize,
                                   !.data = data, !.pred = Len(packets)]]
    /\ io' = [io EXCEPT ![t] = <<>>]
    /\ result' = [result EXCEPT ![t] = Err(e)]
    /\ UNCHANGED <<TOKEN, lockHolder, pc, packets, started, device_info, sessionVars>>

\* entry into PicobootCommand::new(cmd_id, cmd_size, transfer_length, &args)
\* from the operation op called with inputs
CallNewWith(t, op, inputs, dAddr, dSize, data, cmd_id, cmd_size, transfer_length, args) ==
    /\ pc[t] = "idle"
    /\ started < MaxPackets
    /\ frame' = [frame EXCEPT ![t] =
                   [NoFrame EXCEPT !.op = op, !.inputs = inputs,
                                   !.dAddr = dAddr, !.dSize = dSize,
                                   !.data = data, !.cmd_id = cmd_id,
                                   !.cmd_size = cmd_size,
                                   !.transfer_length = transfer_length,
                                   !.args = args, !.pred = Len(packets)]]
    /\ io' = [io EXCEPT ![t] = <<>>]
    /\ result' = [result EXCEPT ![t] = Pending]
    /\ pc' = [pc EXCEPT ![t] = "new_lock1"]
    /\ started' = started + 1
    /\ UNCHANGED <<TOKEN, lockHolder, packets, device_info, sessionVars>>

CallNew(t, op, dAddr, dSize, data, cmd_id, cmd_size, transfer_length, args) ==
    CallNewWith(t, op, <<dAddr, dSize>>, dAddr, dSize, data,
                cmd_id, cmd_size, transfer_length, args)

OptionByte(option) ==
    CASE option = "NOT_EXCLUSIVE" -> 0
      [] option = "EXCLUSIVE" -> 1
      [] option = "EXCLUSIVE_AND_EJECT" -> 2

exclusive_access(t, option) ==
    CallNewWith(t, "exclusive_access", <<option>>, 0, 0, None, 1, 1, 0,
                <<OptionByte(option)>> \o Zeros(15))

reboot(t, dPC, dSP, dDelayMs) ==
    CallNewWith(t, "reboot", <<dPC, dSP, dDelayMs>>, 0, 0, None, 2, 12, 0,
                to_le_bytes(dPC) \o to_le_bytes(dSP) \o to_le_bytes(dDelayMs)
                   \o Zeros(4))


\* variant: only the address is tested
FlashEraseAligned_AddrOnly(dAddr, dSize) == ~(dAddr % 4096 # 0)

\* the alignment test of flash_erase
FlashEraseAligned(dAddr, dSize) == ~(dAddr % 4096 # 0 \/ dSize % 4096 # 0)

flash_erase(t, dAddr, dSize) ==
    IF ~FlashEraseAligned(dAddr, dSize)
    THEN Reject(t, "flash_erase", dAddr, dSize, None, "InvalidParam")
    ELSE CallNew(t, "flash_erase", dAddr, dSize, None, 3, 8, 0,
                 to_le_bytes(dAddr) \o to_le_bytes(dSize) \o Zeros(8))

read(t, dAddr, dSize) ==
    CallNew(t, "read", dAddr, dSize, Some(dSize), 132, 8, dSize,
            to_le_bytes(dAddr) \o to_le_bytes(dSize) \o Zeros(8))


\* variant: only the size is tested
WriteAligned_SizeOnly(dAddr, dSize) == ~(dSize % 256 # 0)

\* the alignment test of write
WriteAligned(dAddr, dSize) == ~(dAddr % 256 # 0 \/ dSize % 256 # 0)

write(t, dAddr, dSize, dataLen) ==
    IF ~WriteAligned(dAddr, dSize)
    THEN Reject(t, "write", dAddr, dSize, Some(dataLen), "InvalidParam")
    ELSE CallNew(t, "write", dAddr, dSize, Some(dataLen), 5, 8, dSize,
                 to_le_bytes(dAddr) \o to_le_bytes(dSize) \o Zeros(8))

exit_xip(t) == CallNew(t, "exit_xip", 0, 0, None, 6, 0, 0, Zeros(16))

enter_xip(t) == CallNew(t, "enter_xip", 0, 0, None, 7, 0, 0, Zeros(16))

exec(t, dAddr) ==
    CallNew(t, "exec", dAddr, 0, None, 8, 4, 0, to_le_bytes(dAddr) \o Zeros(12))

vectorized_flash(t, dAddr) ==
    CallNew(t, "vectorized_flash", dAddr, 0, None, 9, 4, 0,
            to_le_bytes(dAddr) \o Zeros(12))

\* a thread constructing a packet on its own
ConstructPacket(t, cmd_id) ==
    CallNew(t, "new", 0, 0, None, cmd_id, 0, 0, Zeros(16))

(***************************************************************************)
(* PicobootCommand::new: two statements, each taking the TOKEN mutex for   *)
(* the length of the statement.                                            *)
(***************************************************************************)
\* TOKEN.lock() of `let token = *TOKEN.lock().unwrap();`
TokenLock1(t) ==
    /\ pc[t] = "new_lock1"
    /\ lockHolder = NoThread
    /\ lockHolder' = t
    /\ pc' = [pc EXCEPT ![t] = "new_read"]
    /\ UNCHANGED <<TOKEN, frame, io, result, packets, started, device_info, sessionVars>>

\* the read of the counter; the guard is dropped at the end of the statement
TokenRead(t) ==
    /\ pc[t] = "new_read"
    /\ lockHolder = t
    /\ frame' = [frame EXCEPT ![t].token = TOKEN]
    /\ lockHolder' = NoThread
    /\ pc' = [pc EXCEPT ![t] = "new_lock2"]
    /\ UNCHANGED <<TOKEN, io, result, packets, started, device_info, sessionVars>>

\* TOKEN.lock() of `*TOKEN.lock().unwrap() = token + 1;`
TokenLock2(t) ==
    /\ pc[t] = "new_lock2"
    /\ lockHolder = NoThread
    /\ lockHolder' = t
    /\ pc' = [pc EXCEPT ![t] = "new_write"]
    /\ UNCHANGED <<TOKEN, frame, io, result, packets, started, device_info, sessionVars>>

\* variant: the counter is stored back without the increment
NextToken_Same(token) == token

\* token + 1
NextToken(token) == token + 1

\* the struct literal of PicobootCommand::new
NewPacket(f) ==
    [magic |-> MAGIC, token |-> f.token, cmd_id |-> f.cmd_id, cmd_size |-> f.cmd_size,
     reserved |-> 0, transfer_length |-> f.transfer_length, args |-> f.args]

\* the store of token + 1, the release of the guard and the return of the packet
TokenWrite(t) ==
    /\ pc[t] = "new_write"
    /\ lockHolder = t
    /\ TOKEN' = NextToken(frame[t].token)
    /\ lockHolder' = NoThread
    /\ frame' = [frame EXCEPT ![t].cmd = NewPacket(frame[t])]
    /\ packets' = Append(packets, [token |-> frame[t].token, thread |-> t,
                                   pred |-> frame[t].pred])
    /\ IF frame[t].op = "new"
       THEN /\ pc' = [pc EXCEPT ![t] = "idle"]
            /\ result' = [result EXCEPT ![t] = Ok(0)]
       ELSE /\ pc' = [pc EXCEPT ![t] = "woc_check"]
            /\ UNCHANGED result
    /\ UNCHANGED <<io, started, device_info, sessionVars>>

(***************************************************************************)
(* write_out_cmd: local check, command packet, data phase, acknowledgement.*)
(***************************************************************************)

\* variant: the test reads bit 0x01
IsResponseStyle_LowBit(cmd_id) == cmd_id % 2 = 1

\* variant: the direction bit is ignored
IsResponseStyle_Never(cmd_id) == FALSE

\* cmd.cmd_id & 0x80 != 0
IsResponseStyle(cmd_id) == (cmd_id \div 128) % 2 = 1

\* variant: the data phase is entered only for request-style commands
HasDataPhase_RequestOnly(cmd) ==
    cmd.transfer_length # 0 /\ (cmd.cmd_id \div 128) % 2 = 0

\* the condition of the data phase
HasDataPhase(cmd) == cmd.transfer_length # 0

\* variant: only a timeout leaves the function
TransportFailed_TimeoutOnly(outcome) == outcome.err = "Timeout"

\* the `?` after a transfer: an Err of the transport leaves the function
TransportFailed(outcome) == outcome.err # "None"

\* variant: the zero-byte tests are missing
ZeroTransfer_Never(outcome) == FALSE

\* the `ret == 0` tests after the command write and after the data phase
ZeroTransfer(outcome) == outcome.n = 0

\* the message of the local check that rejects the call ("" when it passes)
LocalCheck(cmd, data) ==
    IF ~IsResponseStyle(cmd.cmd_id) /\ cmd.transfer_length # 0 /\ ~data.some
    THEN "Data not present for a send command that has a tranfer length!"
    ELSE IF /\ ~IsResponseStyle(cmd.cmd_id)
            /\ cmd.transfer_length # 0
            /\ data.some
            /\ data.len # cmd.transfer_length
         THEN "Data is not the same size as the reported transfer_length"
         ELSE ""

\* the value the operation hands to its caller for write_out_cmd's value r:
\* read maps a success to its buffer, the others return r
OpResult(f, r) == IF f.op = "read" /\ IsOk(r) THEN Ok(f.data.len) ELSE r

\* the call returns r, having printed msg
Finish(t, r, msg) ==
    /\ pc' = [pc EXCEPT ![t] = "idle"]
    /\ result' = [result EXCEPT ![t] = OpResult(frame[t], r)]
    /\ frame' = [frame EXCEPT ![t].msg = msg]

Continue(t, next) ==
    /\ pc' = [pc EXCEPT ![t] = next]
    /\ UNCHANGED <<result, frame>>

\* one bulk transfer on the session's handle
Transfer(t, kind, endpoint, len, outcome) ==
    io' = [io EXCEPT ![t] =
             Append(@, [kind |-> kind, endpoint |-> endpoint, len |-> len,
                        outcome |-> outcome])]

WocCheck(t) ==
    /\ pc[t] = "woc_check"
    /\ LET msg == LocalCheck(frame[t].cmd, frame[t].data)
       IN IF msg # "" THEN Finish(t, Err("Other"), msg)
                      ELSE Continue(t, "woc_cmd")
    /\ UNCHANGED <<TOKEN, lockHolder, io, packets, started, device_info, sessionVars>>

WocSendCmd(t) ==
    /\ pc[t] = "woc_cmd"
    /\ \E outcome \in TransferOutcomes(PacketSize) :
          /\ Transfer(t, "write_bulk", device_info.out_addr, PacketSize, outcome)
          /\ IF TransportFailed(outcome) THEN Finish(t, outcome, "")
             ELSE IF ZeroTransfer(outcome)
                  THEN Finish(t, Err("Other"), "Failed to send command")
                  ELSE Continue(t, IF HasDataPhase(frame[t].cmd)
                                   THEN "woc_data" ELSE "woc_ack")
    /\ UNCHANGED <<TOKEN, lockHolder, packets, started, device_info, sessionVars>>

WocDataPhase(t) ==
    /\ pc[t] = "woc_data"
    /\ LET f == frame[t]
           resp == IsResponseStyle(f.cmd.cmd_id)
       IN IF ~f.data.some
          THEN \* data.unwrap() on None
               /\ pc' = [pc EXCEPT ![t] = "panicked"]
               /\ UNCHANGED <<io, result, frame>>
          ELSE \E outcome \in TransferOutcomes(f.data.len) :
                 /\ IF resp
                    THEN Transfer(t, "read_bulk", device_info.in_addr,
                                  f.data.len, outcome)
                    ELSE Transfer(t, "write_bulk", device_info.out_addr,
                                  f.data.len, outcome)
                 /\ IF TransportFailed(outcome) THEN Finish(t, outcome, "")
                    ELSE IF ZeroTransfer(outcome)
                         THEN Finish(t, Err("Other"),
                                     IF resp
                                     THEN "Failed to read response for command"
                                     ELSE "Failed to send data for command")
                         ELSE Continue(t, "woc_ack")
    /\ UNCHANGED <<TOKEN, lockHolder, packets, started, device_info, sessionVars>>

WocAck(t) ==
    /\ pc[t] = "woc_ack"
    /\ \E outcome \in TransferOutcomes(1) :
          /\ IF IsResponseStyle(frame[t].cmd.cmd_id)
             THEN Transfer(t, "write_bulk", device_info.out_addr, 1, outcome)
             ELSE Transfer(t, "read_bulk", device_info.in_addr, 1, outcome)
          /\ Finish(t, outcome, "")
    /\ UNCHANGED <<TOKEN, lockHolder, packets, started, device_info, sessionVars>>


(***************************************************************************)
(* try_find_and_open_2040 and USB2040::new.                                *)
(***************************************************************************)
HandleOutcomes == {Ok(0)} \cup {Err(e) : e \in HandleErrors}

\* one call on the device handle outside the bulk endpoints
Call(call, args, outcome, data) ==
    [call |-> call, args |-> args, outcome |-> outcome, data |-> data]

\* the positions of the devices the open loop of try_find_and_open_2040 opens
Matching(b, info) ==
    LET Test(i) == b[i].vendor_id = info.vid /\ b[i].product_id = info.pid
    IN SelectSeq([i \in 1..Len(b) |-> i], Test)

\* try_find_and_open_2040 returns Err(e) to its caller
ReturnErr(t, e) ==
    /\ pc' = [pc EXCEPT ![t] = "returned"]
    /\ result' = [result EXCEPT ![t] = Err(e)]

\* let device_info = find_2040().unwrap();
FindDevice(t) ==
    /\ pc[t] = "start"
    /\ LET r == find_2040(bus)
       IN IF r.err # "None"
          THEN \* unwrap() on Err: the thread panics, no session exists yet
               /\ pc' = [pc EXCEPT ![t] = "panic_exit"]
               /\ UNCHANGED device_info
          ELSE /\ pc' = [pc EXCEPT ![t] = "open"]
               /\ device_info' = r.info
    /\ frame' = [frame EXCEPT ![t] = [NoFrame EXCEPT !.op = "try_find_and_open_2040"]]
    /\ UNCHANGED <<TOKEN, lockHolder, io, result, packets, started, sessionVars>>

\* Context::new()?, the loop that opens every device with the ids of
\* device_info and keeps the last handle, and the entry into USB2040::new
OpenDevices(t) ==
    /\ pc[t] = "open"
    /\ LET m == Matching(bus, device_info)
       IN \/ \* Context::new()? or ctx.devices()? fails
             /\ ReturnErr(t, "Other")
             /\ UNCHANGED <<ctl, session>>
          \/ \* the k-th device.open()? fails
             \E k \in 1..Len(m), e \in HandleErrors :
                /\ ctl' = [i \in 1..k |->
                             Call("open", <<m[i]>>, IF i = k THEN Err(e) ELSE Ok(0), 0)]
                /\ ReturnErr(t, e)
                /\ UNCHANGED session
          \/ \* every open succeeds
             /\ ctl' = [i \in 1..Len(m) |-> Call("open", <<m[i]>>, Ok(0), 0)]
             /\ IF m = <<>>
                THEN /\ ReturnErr(t, "NoDevice")
                     /\ UNCHANGED session
                ELSE /\ session' = [state |-> "alive", claimed |-> FALSE,
                                    handle |-> m[Len(m)]]
                     /\ pc' = [pc EXCEPT ![t] = "new_claim"]
                     /\ UNCHANGED result
    /\ UNCHANGED <<TOKEN, lockHolder, frame, io, packets, started, device_info,
                   bus, cmd_status>>

\* a setup call of USB2040::new followed by unwrap(): an Err panics, and the
\* unwinding drops the USB2040 value that new holds
SetupStep(t, at, call, args, next) ==
    /\ pc[t] = at
    /\ \E outcome \in HandleOutcomes :
          /\ ctl' = Append(ctl, Call(call, args, outcome, 0))
          /\ IF IsOk(outcome)
             THEN /\ pc' = [pc EXCEPT ![t] = next]
                  /\ session' = [session EXCEPT !.claimed =
                                    @ \/ call = "claim_interface"]
                  /\ result' = [result EXCEPT ![t] =
                                   IF next = "idle" THEN Ok(0) ELSE @]
             ELSE /\ pc' = [pc EXCEPT ![t] = "unwind"]
                  /\ UNCHANGED <<session, result>>
    /\ UNCHANGED <<TOKEN, lockHolder, frame, io, packets, started, device_info,
                   bus, cmd_status>>

ClaimInterface(t) ==
    SetupStep(t, "new_claim", "claim_interface", <<device_info.iface>>, "new_config")

SetActiveConfiguration(t) ==
    SetupStep(t, "new_config", "set_active_configuration", <<device_info.config>>,
              "new_setting")

SetAlternateSetting(t) ==
    SetupStep(t, "new_setting", "set_alternate_setting",
              <<device_info.iface, device_info.setting>>, "idle")


(***************************************************************************)
(* Control-channel operations: interface_reset and get_command_status.     *)
(***************************************************************************)
\* an operation of the session returns r to its caller
ReturnOp(t, r) ==
    /\ pc' = [pc EXCEPT ![t] = "idle"]
    /\ result' = [result EXCEPT ![t] = r]

\* variant: any nonzero status byte counts as halted
Halted_NonZero(data0) == data0 # 0

\* data[0] & 1 == 1
Halted(data0) == data0 % 2 = 1

\* is_halted(endpoint) appended to the calls in log: the GET_STATUS control
\* read and the test of its first byte
IsHaltedStep(t, endpoint, log, ifHalted, ifNot) ==
    \E outcome \in TransferOutcomes(2), d \in StatusBytes :
        LET data0 == IF IsOk(outcome) /\ outcome.n >= 1 THEN d ELSE 0
        IN /\ ctl' = Append(log, Call("read_control", <<130, 0, 0, endpoint>>,
                                      outcome, data0))
           /\ IF TransportFailed(outcome)
              THEN ReturnOp(t, outcome)
              ELSE /\ pc' = [pc EXCEPT ![t] = IF Halted(data0) THEN ifHalted ELSE ifNot]
                   /\ result' = [result EXCEPT ![t] = Pending]

\* clear_halt(endpoint).unwrap()
ClearHaltStep(t, endpoint, next) ==
    \E outcome \in HandleOutcomes :
        /\ ctl' = Append(ctl, Call("clear_halt", <<endpoint>>, outcome, 0))
        /\ pc' = [pc EXCEPT ![t] = IF IsOk(outcome) THEN next ELSE "unwind"]

\* interface_reset, up to the halt query of the IN endpoint
interface_reset(t) ==
    /\ pc[t] = "idle"
    /\ session.state = "alive"
    /\ frame' = [frame EXCEPT ![t] = [NoFrame EXCEPT !.op = "interface_reset"]]
    /\ IsHaltedStep(t, device_info.in_addr, <<>>, "ir_clear_in", "ir_status_out")
    /\ UNCHANGED <<TOKEN, lockHolder, io, packets, started, device_info,
                   bus, session, cmd_status>>

ClearHaltIn(t) ==
    /\ pc[t] = "ir_clear_in"
    /\ ClearHaltStep(t, device_info.in_addr, "ir_status_out")
    /\ UNCHANGED <<TOKEN, lockHolder, frame, io, result, packets, started,
                   device_info, bus, session, cmd_status>>

IsHaltedOut(t) ==
    /\ pc[t] = "ir_status_out"
    /\ IsHaltedStep(t, device_info.out_addr, ctl, "ir_clear_out", "ir_reset")
    /\ UNCHANGED <<TOKEN, lockHolder, frame, io, packets, started, device_info,
                   bus, session, cmd_status>>

ClearHaltOut(t) ==
    /\ pc[t] = "ir_clear_out"
    /\ ClearHaltStep(t, device_info.out_addr, "ir_reset")
    /\ UNCHANGED <<TOKEN, lockHolder, frame, io, result, packets, started,
                   device_info, bus, session, cmd_status>>

\* transferred > 0
ResetFailed(transferred) == transferred > 0

\* the vendor request 0x41 with an empty payload and the test of its result;
\* Ok(true) is written Ok(1)
ResetRequest(t) ==
    /\ pc[t] = "ir_reset"
    /\ \E outcome \in {Err(e) : e \in TransportErrors} \cup {Ok(0), Ok(1)} :
          /\ ctl' = Append(ctl, Call("write_control",
                                     <<65, 65, 0, device_info.iface>>, outcome, 0))
          /\ IF TransportFailed(outcome) THEN ReturnOp(t, outcome)
             ELSE IF ResetFailed(outcome.n) THEN ReturnOp(t, Err("Other"))
                  ELSE ReturnOp(t, Ok(1))
    /\ UNCHANGED <<TOKEN, lockHolder, frame, io, packets, started, device_info,
                   bus, session, cmd_status>>

\* CommandStatusCode
StatusNames ==
    <<"Ok", "UnknownCommand", "InvalidCommandLength", "InvalidTransferLength",
      "InvalidAddress", "BadAlignment", "InterleavedWrite", "Rebooting",
      "UnknownError">>

\* `unsafe { *cmd_status_p }` over a byte buffer whose status-code field is
\* raw: a value of the enumeration is copied out; any other value is an
\* invalid discriminant that the copy hands on unchecked.  The buffer has
\* byte alignment, and a build with debug assertions panics on the
\* dereference when its address is not a multiple of four.
DecodeOutcomes(raw, aligned) ==
    {[panic |-> FALSE,
      status |-> [dStatusCode |-> IF raw \in 0..8 THEN StatusNames[raw + 1]
                                               ELSE "invalid",
                  raw |-> raw]]}
    \cup (IF aligned THEN {} ELSE {[panic |-> TRUE, status |-> NoStatus]})

get_command_status(t) ==
    /\ pc[t] = "idle"
    /\ session.state = "alive"
    /\ frame' = [frame EXCEPT ![t] = [NoFrame EXCEPT !.op = "get_command_status"]]
    /\ \E outcome \in TransferOutcomes(16), field \in StatusFields, aligned \in BOOLEAN :
          LET raw == IF IsOk(outcome) /\ outcome.n >= 8 THEN field ELSE 0
          IN /\ ctl' = <<Call("read_control", <<193, 66, 0, device_info.iface>>,
                              outcome, raw)>>
             /\ IF TransportFailed(outcome)
                THEN ReturnOp(t, outcome) /\ cmd_status' = NoStatus
                ELSE IF outcome.n = 0
                     THEN ReturnOp(t, Err("Other")) /\ cmd_status' = NoStatus
                     ELSE \E d \in DecodeOutcomes(raw, aligned) :
                             IF d.panic
                             THEN /\ pc' = [pc EXCEPT ![t] = "unwind"]
                                  /\ result' = [result EXCEPT ![t] = Pending]
                                  /\ cmd_status' = NoStatus
                             ELSE /\ ReturnOp(t, Ok(0))
                                  /\ cmd_status' = d.status
    /\ UNCHANGED <<TOKEN, lockHolder, io, packets, started, device_info,
                   bus, session>>

(***************************************************************************)
(* Scope exit and Drop.                                                    *)
(***************************************************************************)
\* the owner of the session leaves the scope that holds it
ExitScope(t, kind) ==
    /\ pc[t] = "idle"
    /\ session.state = "alive"
    /\ pc' = [pc EXCEPT ![t] = IF kind = "panic" THEN "unwind" ELSE "drop"]
    /\ frame' = [frame EXCEPT ![t] = [NoFrame EXCEPT !.op = "exit", !.msg = kind]]
    /\ UNCHANGED <<TOKEN, lockHolder, io, result, packets, started, device_info,
                   sessionVars>>

\* variant: the alternate setting number is passed to release_interface
ReleasedInterface_Setting(info) == info.setting

\* the interface number Drop releases
ReleasedInterface(info) == info.iface

\* impl Drop for USB2040: release_interface(iface).unwrap(); a panic raised
\* while the thread is already unwinding aborts the process
Drop(t) ==
    /\ pc[t] \in {"drop", "unwind"}
    /\ session.state = "alive"
    /\ \E outcome \in HandleOutcomes :
          /\ ctl' = Append(ctl, Call("release_interface",
                                     <<ReleasedInterface(device_info)>>, outcome, 0))
          /\ session' = [session EXCEPT !.state = "dropped",
                                        !.claimed = IF IsOk(outcome) THEN FALSE ELSE @]
          /\ pc' = [pc EXCEPT ![t] =
                      IF IsOk(outcome)
                      THEN IF pc[t] = "unwind" THEN "panic_exit" ELSE "end"
                      ELSE IF pc[t] = "unwind" THEN "aborted" ELSE "panic_exit"]
    /\ UNCHANGED <<TOKEN, lockHolder, frame, io, result, packets, started,
                   device_info, bus, cmd_status>>

(***************************************************************************)
(* Specifications.                                                         *)
(***************************************************************************)
Next ==
    \/ \E o \in ExclusivityOptions : exclusive_access(MainThread, o)
    \/ \E r \in RebootInputs : reboot(MainThread, r[1], r[2], r[3])
    \/ \E a \in AddrValues, s \in SizeValues : flash_erase(MainThread, a, s)
    \/ \E a \in AddrValues, s \in SizeValues : read(MainThread, a, s)
    \/ \E a \in AddrValues, s \in SizeValues, l \in DataLens :
          write(MainThread, a, s, l)
    \/ exit_xip(MainThread)
    \/ enter_xip(MainThread)
    \/ \E a \in AddrValues : exec(MainThread, a)
    \/ \E a \in AddrValues : vectorized_flash(MainThread, a)
    \/ TokenLock1(MainThread)
    \/ TokenRead(MainThread)
    \/ TokenLock2(MainThread)
    \/ TokenWrite(MainThread)
    \/ WocCheck(MainThread)
    \/ WocSendCmd(MainThread)
    \/ WocDataPhase(MainThread)
    \/ WocAck(MainThread)

Spec == Init /\ [][Next]_vars

NextThreads ==
    \E t \in Threads :
        \/ \E c \in {1, 132} : ConstructPacket(t, c)
        \/ TokenLock1(t)
        \/ TokenRead(t)
        \/ TokenLock2(t)
        \/ TokenWrite(t)

SpecThreads == Init /\ [][NextThreads]_vars

NextSession ==
    \/ FindDevice(MainThread)
    \/ OpenDevices(MainThread)
    \/ ClaimInterface(MainThread)
    \/ SetActiveConfiguration(MainThread)
    \/ SetAlternateSetting(MainThread)
    \/ interface_reset(MainThread)
    \/ ClearHaltIn(MainThread)
    \/ IsHaltedOut(MainThread)
    \/ ClearHaltOut(MainThread)
    \/ ResetRequest(MainThread)
    \/ get_command_status(MainThread)
    \/ \E k \in ExitKinds : ExitScope(MainThread, k)
    \/ Drop(MainThread)

SpecSession == InitSession /\ [][NextSession]_vars

\* Drop runs as soon as the owning scope is left or unwound
SpecSessionFair == SpecSession /\ WF_vars(Drop(MainThread))

(***************************************************************************)
(* Properties.                                                             *)
(***************************************************************************)
\* the call of thread t has returned
Returned(t) == pc[t] = "idle" /\ frame[t].op \notin {"none", "new"}

Succeeded(t) == Returned(t) /\ IsOk(result[t])

\* the transfer that carries the 32-byte command packet
IsPacketWrite(e) ==
    e.kind = "write_bulk" /\ e.endpoint = device_info.out_addr /\ e.len = 32

RequestStyleId(id) == id \in {1, 2, 3, 5, 6, 7, 8, 9}
ResponseStyleId(id) == id = 132

\* C1: packets constructed concurrently carry pairwise distinct tokens, each
\* at least the starting value 1.
C1_DistinctTokens ==
    \A i, j \in 1..Len(packets) :
        /\ packets[i].token >= 1
        /\ i # j => packets[i].token # packets[j].token

\* C2: the token counter never decreases, and a construction that begins
\* after another one has completed obtains a strictly larger token.
C2_MonotonicTokens ==
    /\ [][TOKEN' >= TOKEN]_vars
    /\ [](\A i, j \in 1..Len(packets) :
             j <= packets[i].pred => packets[j].token < packets[i].token)

\* C3: the transfers of a call are, in this order, the 32-byte packet write to
\* OUT, the data phase (present exactly when transfer_length # 0) and the
\* one-byte acknowledgement; a successful call has performed all of them.
C3_PhaseOrder ==
    \A t \in Threads :
        LET f == frame[t]
            log == io[t]
            n == Len(log)
            tl == f.transfer_length
        IN /\ n >= 1 => IsPacketWrite(log[1])
           /\ tl # 0 => /\ n <= 3
                        /\ n >= 2 => log[2].len = tl
                        /\ n >= 3 => log[3].len = 1
           /\ tl = 0 => /\ n <= 2
                        /\ n >= 2 => log[2].len = 1
           /\ Succeeded(t) => n = (IF tl # 0 THEN 3 ELSE 2)

C3_Witness ==
    /\ Succeeded(MainThread)
    /\ frame[MainThread].op = "write"
    /\ frame[MainThread].transfer_length = 256
    /\ Len(io[MainThread]) = 3

\* C4: with a nonzero transfer length a response-style command reads its data
\* from IN and then writes the acknowledgement byte to OUT, a request-style
\* command writes its data to OUT and then reads the acknowledgement byte
\* from IN; the acknowledgement always goes the opposite way of the data.
C4_HandshakeDirection ==
    \A t \in Threads :
        LET f == frame[t]
            log == io[t]
            n == Len(log)
            IsIn(e) == e.kind = "read_bulk" /\ e.endpoint = device_info.in_addr
            IsOut(e) == e.kind = "write_bulk" /\ e.endpoint = device_info.out_addr
        IN f.transfer_length # 0 =>
             /\ ResponseStyleId(f.cmd_id) =>
                   /\ n >= 2 => IsIn(log[2])
                   /\ n >= 3 => IsOut(log[3]) /\ log[3].len = 1
             /\ RequestStyleId(f.cmd_id) =>
                   /\ n >= 2 => IsOut(log[2])
                   /\ n >= 3 => IsIn(log[3]) /\ log[3].len = 1
             /\ n >= 3 => log[2].kind # log[3].kind

C4_Witness ==
    /\ Succeeded(MainThread)
    /\ frame[MainThread].op = "read"
    /\ frame[MainThread].transfer_length = 4096
    /\ Len(io[MainThread]) = 3

\* C5: a successful call with transfer length 0 performs exactly two
\* transfers: the packet write to OUT and a one-byte acknowledgement, read from
\* IN for the request-style ids and written to OUT for id 0x84.
C5_AckWithoutData ==
    \A t \in Threads :
        LET f == frame[t]
            log == io[t]
        IN (Succeeded(t) /\ f.transfer_length = 0) =>
             /\ Len(log) = 2
             /\ IsPacketWrite(log[1])
             /\ log[2].len = 1
             /\ IF f.cmd_id = 132
                THEN log[2].kind = "write_bulk"
                     /\ log[2].endpoint = device_info.out_addr
                ELSE log[2].kind = "read_bulk"
                     /\ log[2].endpoint = device_info.in_addr

C5_Witness ==
    /\ Succeeded(MainThread)
    /\ frame[MainThread].op = "reboot"
    /\ frame[MainThread].args[4] = 32
    /\ Len(io[MainThread]) = 2

\* C6: flash_erase with addr or size not a multiple of 4096 fails with
\* InvalidParam without any transfer; with both multiples of 4096 the packet
\* is constructed and sent.
C6_FlashEraseValidation ==
    \A t \in Threads :
        LET f == frame[t]
        IN f.op = "flash_erase" =>
             IF f.dAddr % 4096 = 0 /\ f.dSize % 4096 = 0
             THEN /\ pc[t] # "idle" \/ result[t] # Err("InvalidParam")
                  /\ pc[t] = "idle" =>
                        /\ f.cmd.cmd_id = 3
                        /\ f.cmd.magic = MAGIC
                        /\ Len(io[t]) >= 1
                        /\ IsPacketWrite(io[t][1])
             ELSE /\ pc[t] = "idle"
                  /\ result[t] = Err("InvalidParam")
                  /\ io[t] = <<>>

C6_Witness ==
    /\ frame[MainThread].op = "flash_erase"
    /\ frame[MainThread].dAddr = 4096
    /\ frame[MainThread].dSize = 256
    /\ result[MainThread] = Err("InvalidParam")

\* C7: write with aligned addr and size: a buffer whose length differs from
\* size (size 0 with a non-empty buffer included) fails locally with the
\* length-mismatch error and no transfer; a buffer of exactly size bytes with
\* every transfer complete succeeds.
C7_WriteLengthMismatch ==
    \A t \in Threads :
        LET f == frame[t]
            log == io[t]
        IN (f.op = "write" /\ f.dAddr % 256 = 0 /\ f.dSize % 256 = 0) =>
             /\ f.data.len # f.dSize =>
                   /\ log = <<>>
                   /\ pc[t] = "idle" =>
                         /\ result[t] = Err("Other")
                         /\ f.msg = "Data is not the same size as the reported transfer_length"
             /\ ( /\ f.data.len = f.dSize
                  /\ pc[t] = "idle"
                  /\ \A i \in 1..Len(log) : log[i].outcome = Ok(log[i].len) )
                => IsOk(result[t])

C9_TransportErrorAborts ==
    \A t \in Threads :
        \A i \in 1..Len(io[t]) :
            io[t][i].outcome.err # "None" =>
               /\ i = Len(io[t])
               /\ pc[t] = "idle"
               /\ result[t] = io[t][i].outcome

C9_Witness ==
    /\ Len(io[MainThread]) = 2
    /\ frame[MainThread].transfer_length # 0
    /\ io[MainThread][2].outcome = Err("Pipe")
    /\ result[MainThread] = Err("Pipe")

\* C10: a packet write or a data phase that transfers zero bytes makes the
\* call fail, and no later phase is executed.
C10_ZeroTransferAborts ==
    \A t \in Threads :
        LET f == frame[t]
            log == io[t]
        IN \A i \in 1..Len(log) :
              (/\ i = 1 \/ (i = 2 /\ f.transfer_length # 0)
               /\ log[i].outcome = Ok(0)) =>
                 /\ i = Len(log)
                 /\ pc[t] = "idle"
                 /\ IsErr(result[t])

C10_Witness ==
    /\ Len(io[MainThread]) = 2
    /\ frame[MainThread].op = "read"
    /\ frame[MainThread].transfer_length # 0
    /\ io[MainThread][2].outcome = Ok(0)
    /\ IsErr(result[MainThread])

\* C11: a call reports success only if the whole command packet was written,
\* the data phase moved all transfer_length bytes and the acknowledgement
\* moved its one byte.
C11_NoPartialSuccess ==
    \A t \in Threads :
        Succeeded(t) =>
            \A i \in 1..Len(io[t]) : io[t][i].outcome = Ok(io[t][i].len)

\* bytes k..k+3 of an argument block hold the u32 x, least significant first
LeU32(args, k, x) ==
    /\ args[k] = x % 256
    /\ args[k + 1] = (x \div 256) % 256
    /\ args[k + 2] = (x \div 65536) % 256
    /\ args[k + 3] = (x \div 16777216) % 256

\* the command table: id, declared size, transfer length and decoded arguments
TableRow(f) ==
    CASE f.op = "exclusive_access" ->
            /\ f.cmd.cmd_id = 1 /\ f.cmd.cmd_size = 1 /\ f.cmd.transfer_length = 0
            /\ \/ f.inputs[1] = "NOT_EXCLUSIVE" /\ f.cmd.args[1] = 0
               \/ f.inputs[1] = "EXCLUSIVE" /\ f.cmd.args[1] = 1
               \/ f.inputs[1] = "EXCLUSIVE_AND_EJECT" /\ f.cmd.args[1] = 2
      [] f.op = "reboot" ->
            /\ f.cmd.cmd_id = 2 /\ f.cmd.cmd_size = 12 /\ f.cmd.transfer_length = 0
            /\ LeU32(f.cmd.args, 1, f.inputs[1])
            /\ LeU32(f.cmd.args, 5, f.inputs[2])
            /\ LeU32(f.cmd.args, 9, f.inputs[3])
            /\ f.inputs = <<536870912, 537133056, 5000>> =>
                  SubSeq(f.cmd.args, 1, 12) = <<0, 0, 0, 32, 0, 0, 4, 32, 136, 19, 0, 0>>
      [] f.op = "flash_erase" ->
            /\ f.cmd.cmd_id = 3 /\ f.cmd.cmd_size = 8 /\ f.cmd.transfer_length = 0
            /\ LeU32(f.cmd.args, 1, f.inputs[1])
            /\ LeU32(f.cmd.args, 5, f.inputs[2])
      [] f.op = "read" ->
            /\ f.cmd.cmd_id = 132 /\ f.cmd.cmd_size = 8
            /\ f.cmd.transfer_length = f.inputs[2]
            /\ LeU32(f.cmd.args, 1, f.inputs[1])
            /\ LeU32(f.cmd.args, 5, f.inputs[2])
      [] f.op = "write" ->
            /\ f.cmd.cmd_id = 5 /\ f.cmd.cmd_size = 8
            /\ f.cmd.transfer_length = f.inputs[2]
            /\ LeU32(f.cmd.args, 1, f.inputs[1])
            /\ LeU32(f.cmd.args, 5, f.inputs[2])
      [] f.op = "exit_xip" ->
            f.cmd.cmd_id = 6 /\ f.cmd.cmd_size = 0 /\ f.cmd.transfer_length = 0
      [] f.op = "enter_xip" ->
            f.cmd.cmd_id = 7 /\ f.cmd.cmd_size = 0 /\ f.cmd.transfer_length = 0
      [] f.op = "exec" ->
            /\ f.cmd.cmd_id = 8 /\ f.cmd.cmd_size = 4 /\ f.cmd.transfer_length = 0
            /\ LeU32(f.cmd.args, 1, f.inputs[1])
      [] f.op = "vectorized_flash" ->
            /\ f.cmd.cmd_id = 9 /\ f.cmd.cmd_size = 4 /\ f.cmd.transfer_length = 0
            /\ LeU32(f.cmd.args, 1, f.inputs[1])
      [] OTHER -> TRUE

\* C17: every operation builds the packet of its row of the command table:
\* fixed id and declared size, transfer length dSize for read and write and 0
\* otherwise, arguments little-endian and zero-padded to 16 bytes.
C17_CommandTable ==
    \A t \in Threads :
        LET f == frame[t]
        IN f.cmd.magic = 1126158603 =>
              /\ TableRow(f)
              /\ f.cmd.reserved = 0
              /\ Len(f.cmd.args) = 16
              /\ \A i \in 1..16 : f.cmd.args[i] \in 0..255
              /\ \A i \in (f.cmd.cmd_size + 1)..16 : f.cmd.args[i] = 0

C17_Witness ==
    /\ frame[MainThread].op = "reboot"
    /\ frame[MainThread].inputs = <<536870912, 537133056, 5000>>
    /\ frame[MainThread].cmd.magic = 1126158603
    /\ frame[MainThread].cmd.args[8] = 32
    /\ Len(io[MainThread]) >= 1

\* C19: in a single-threaded run the k-th packet constructed carries token k
\* and after k constructions the counter holds k + 1.
C19_SequentialTokens ==
    /\ \A i \in 1..Len(packets) : packets[i].token = i
    /\ TOKEN = Len(packets) + 1

C19_Witness ==
    /\ Len(packets) = 3
    /\ packets[3].token = 3
    /\ TOKEN = 4

\* the thread was terminated by a panic, or the process was aborted
PanicPcs == {"unwind", "panic_exit", "aborted"}

\* C12: a session that has claimed its interface and leaves its scope, by
\* return, by error or by panic unwinding, eventually issues the release of
\* that interface.
C12_ReleasedOnExit ==
    (/\ session.state = "alive"
     /\ session.claimed
     /\ pc[MainThread] \in {"drop", "unwind"})
    ~> (\E i \in 1..Len(ctl) :
           /\ ctl[i].call = "release_interface"
           /\ ctl[i].args = <<device_info.iface>>)

C12_Witness ==
    /\ session.state = "dropped"
    /\ frame[MainThread].op = "exit"
    /\ frame[MainThread].msg = "panic"
    /\ device_info.iface = 1
    /\ ctl[Len(ctl)].call = "release_interface"
    /\ ctl[Len(ctl)].outcome = Ok(0)

\* the setup calls of the construction, in the order they were made
SetupCalls ==
    LET IsSetup(c) == c.call \in {"claim_interface", "set_active_configuration",
                                  "set_alternate_setting"}
    IN SelectSeq(ctl, IsSetup)

\* C13: construction claims the interface, sets the configuration and selects
\* the alternate setting in that order; when one of the steps fails the
\* construction is aborted and the transport error is returned to the caller
\* as an error result, no session reaching the caller.
C13_ConstructionFailure ==
    frame[MainThread].op = "try_find_and_open_2040" =>
        /\ \A i \in 1..Len(SetupCalls) :
              SetupCalls[i].call = <<"claim_interface", "set_active_configuration",
                                     "set_alternate_setting">>[i]
        /\ \A i \in 1..Len(SetupCalls) :
              SetupCalls[i].outcome.err # "None" =>
                 /\ pc[MainThread] \notin PanicPcs
                 /\ pc[MainThread] # "idle"
                 /\ pc[MainThread] = "returned" =>
                       result[MainThread] = SetupCalls[i].outcome

\* C14: when the release of the interface fails at teardown the process
\* continues: the failure neither aborts the process nor terminates the
\* thread that dropped the session.
C14_TeardownBestEffort ==
    \A i \in 1..Len(ctl) :
        (ctl[i].call = "release_interface" /\ ctl[i].outcome.err # "None") =>
            /\ pc[MainThread] # "aborted"
            /\ (frame[MainThread].op = "exit" /\ frame[MainThread].msg # "panic")
                  => pc[MainThread] = "end"

RECURSIVE AllDescriptors(_)
\* the descriptors of all configurations of a device, in scan order
AllDescriptors(configs) ==
    IF configs = <<>> THEN <<>>
    ELSE Flatten(Head(configs).interfaces) \o AllDescriptors(Tail(configs))

\* the devices with the bootloader ids that have a vendor descriptor
Candidates(b) ==
    {i \in 1..Len(b) :
        /\ b[i].vendor_id = 11914
        /\ b[i].product_id = 3
        /\ \E k \in 1..Len(AllDescriptors(b[i].configs)) :
              IsVendorInterface(AllDescriptors(b[i].configs)[k])}

\* the first vendor descriptor of the first candidate
Selected(b) ==
    LET first == CHOOSE i \in Candidates(b) : \A j \in Candidates(b) : i <= j
        ds == SelectSeq(AllDescriptors(b[first].configs), IsVendorInterface)
    IN ds[1]

BulkAddresses(descriptor, direction) ==
    {descriptor.endpoints[k].address : k \in
        {j \in 1..Len(descriptor.endpoints) :
            /\ descriptor.endpoints[j].direction = direction
            /\ descriptor.endpoints[j].transfer_type = "Bulk"}}

\* C15: find_2040 returns the first vendor descriptor of a device with the
\* bootloader ids, fails whenever there is no such device or the descriptor
\* lacks a bulk-IN or a bulk-OUT endpoint, and never returns an endpoint
\* address that was not taken from an endpoint of the selected descriptor.
C15_Discovery ==
    pc[MainThread] # "start" =>
        LET r == find_2040(bus)
        IN IF Candidates(bus) = {}
           THEN r.err # "None"
           ELSE LET d == Selected(bus)
                IN IF BulkAddresses(d, "In") = {} \/ BulkAddresses(d, "Out") = {}
                   THEN r.err # "None"
                   ELSE /\ r.err = "None"
                        /\ r.info.iface = d.interface_number
                        /\ r.info.setting = d.setting_number
                        /\ r.info.in_addr \in BulkAddresses(d, "In")
                        /\ r.info.out_addr \in BulkAddresses(d, "Out")

\* C16: a zero-byte status transfer is an error; a status-code field of 0
\* decodes to Ok and of 7 to Rebooting; a field outside 0..8 is reported as an
\* error and never returned as a CommandStatus.
C16_StatusDecode ==
    (frame[MainThread].op = "get_command_status" /\ ctl[1].outcome.err = "None") =>
        IF ctl[1].outcome.n = 0
        THEN IsErr(result[MainThread])
        ELSE /\ ctl[1].data = 0 =>
                   IsOk(result[MainThread]) /\ cmd_status.dStatusCode = "Ok"
             /\ ctl[1].data = 7 =>
                   IsOk(result[MainThread]) /\ cmd_status.dStatusCode = "Rebooting"
             /\ ctl[1].data \notin 0..8 =>
                   IsErr(result[MainThread]) /\ cmd_status = NoStatus

IsStatusQuery(c, endpoint) ==
    c.call = "read_control" /\ c.args = <<130, 0, 0, endpoint>>

ReportsHalted(c) ==
    c.call = "read_control" /\ c.outcome.err = "None" /\ c.data % 2 = 1

\* C18: interface_reset queries the halt status of the IN and of the OUT
\* endpoint, clears exactly the endpoints that reported halted, and only then
\* issues the vendor reset request; the call fails when that request reports
\* transferred bytes and succeeds when it reports none.
C18_InterfaceReset ==
    frame[MainThread].op = "interface_reset" =>
        LET n == Len(ctl)
        IN /\ n >= 1 /\ IsStatusQuery(ctl[1], device_info.in_addr)
           /\ \A i \in 1..n :
                 /\ ctl[i].call = "clear_halt" =>
                       /\ i > 1
                       /\ ReportsHalted(ctl[i - 1])
                       /\ ctl[i].args = <<ctl[i - 1].args[4]>>
                 /\ ReportsHalted(ctl[i]) =>
                       IF i < n THEN ctl[i + 1].call = "clear_halt"
                       ELSE pc[MainThread] \in {"ir_clear_in", "ir_clear_out"}
                 /\ ctl[i].call = "write_control" =>
                       /\ i = n
                       /\ ctl[i].args = <<65, 65, 0, device_info.iface>>
                       /\ pc[MainThread] = "idle"
                       /\ \E j \in 2..(i - 1) :
                             /\ IsStatusQuery(ctl[j], device_info.out_addr)
                             /\ ctl[j].outcome.err = "None"
                             /\ ctl[1].outcome.err = "None"
                       /\ ctl[i].outcome.err = "None" =>
                             IF ctl[i].outcome.n > 0
                             THEN IsErr(result[MainThread])
                             ELSE result[MainThread] = Ok(1)

C18_Witness ==
    /\ frame[MainThread].op = "interface_reset"
    /\ Len(ctl) = 5
    /\ ctl[2].call = "clear_halt"
    /\ ctl[4].call = "clear_halt"
    /\ ctl[5].outcome = Ok(0)
    /\ result[MainThread] = Ok(1)

\* C20: when no bootloader device or no vendor interface is present,
\* try_find_and_open_2040 returns an error value to its caller.
C20_TypedFailure ==
    (find_2040(bus).err # "None" /\ pc[MainThread] # "start") =>
        /\ pc[MainThread] = "returned"
        /\ IsErr(result[MainThread])

\* the step issues release_interface on the handle of the session
IssuesRelease ==
    /\ Len(ctl') = Len(ctl) + 1
    /\ ctl'[Len(ctl')].call = "release_interface"

\* C21: every release_interface call is issued while the session holds a
\* successful claim of its interface that has not been released since.
C21_ReleaseOnlyClaimed ==
    [][IssuesRelease => session.claimed]_vars

\* the call of thread t was rejected by a local validation: it returned an
\* error and made no transfer
LocallyRejected(t) ==
    /\ pc[t] = "idle"
    /\ frame[t].op \in {"flash_erase", "write"}
    /\ IsErr(result[t])
    /\ io[t] = <<>>

\* C22: after a flash_erase or write rejected by a local validation no packet
\* was constructed by the call and the token counter holds the value it had
\* when the call was made (one more than the packets constructed before it).
C22_RejectedKeepsToken ==
    \A t \in Threads :
        LocallyRejected(t) =>
            /\ Len(packets) = frame[t].pred
            /\ TOKEN = frame[t].pred + 1

\* the successful open calls of the log
OpenedHandles == {i \in 1..Len(ctl) : ctl[i].call = "open" /\ IsOk(ctl[i].outcome)}

\* C23: the session holds the handle of the device whose descriptors gave its
\* DeviceInformation, and try_find_and_open_2040 opens exactly one handle.
C23_OpenedIsDiscovered ==
    session.state = "alive" =>
        /\ Candidates(bus) # {}
        /\ \A j \in Candidates(bus) : session.handle <= j
        /\ session.handle \in Candidates(bus)
        /\ pc[MainThread] = "new_claim" => Cardinality(OpenedHandles) = 1

====
